---- MODULE Spec2Model ----
\* Model of script.py: the resumable icon-generation batch (main), its
\* checkpoint file (load_save_state / save_state), the sitemap filter
\* (fetch_sitemap_urls), the slug derivation (get_clean_slug) and the
\* adapter (generate_icon), together with process start, exit and kill.
EXTENDS Integers, Sequences, FiniteSets, TLC

\* ---------------------------------------------------------------- bounds

\* Number of times the script is started.
MaxRuns == 2

\* Number of <loc> entries of a sitemap document.
MaxUrls == 2

\* Number of entries of failed_slugs beyond which no further generation
\* fails.
MaxFailed == 2

\* Number of <loc> entries of a document given to fetch_sitemap_urls when it
\* is called on its own.
MaxLocs == 3

\* Number of characters after the path marker in an identifier given to
\* get_clean_slug when it is called on its own.
MaxTail == 3

\* ------------------------------------------------------------- strings
\* A string is a sequence of one-character strings.

Range(s) == {s[i] : i \in 1..Len(s)}

\* REQUIRED_PATH = '/get-started/'
REQUIRED_PATH == <<"/", "g", "e", "t", "-", "s", "t", "a", "r", "t", "e", "d", "/">>

\* EXCLUDED_LANGS = ['/de/', '/es/', '/fr/', '/it/', '/ru/', '/zh/', '/ja/']
EXCLUDED_LANGS ==
    << <<"/", "d", "e", "/">>, <<"/", "e", "s", "/">>, <<"/", "f", "r", "/">>,
       <<"/", "i", "t", "/">>, <<"/", "r", "u", "/">>, <<"/", "z", "h", "/">>,
       <<"/", "j", "a", "/">> >>

\* str.find(sub, start): the least index i >= from at which sub occurs in s,
\* 0 when there is none.
Find(s, sub, from) ==
    LET hits == {i \in from..(Len(s) - Len(sub) + 1) :
                    SubSeq(s, i, i + Len(sub) - 1) = sub}
    IN  IF hits = {} THEN 0 ELSE CHOOSE i \in hits : \A j \in hits : i <= j

\* Python's `sub in s`.
Contains(s, sub) == Find(s, sub, 1) # 0

\* s.split(sep)[-1]: what follows the last occurrence of sep found by the
\* left-to-right, non-overlapping scan; all of s when sep does not occur.
RECURSIVE SplitLast(_, _)
SplitLast(s, sep) ==
    LET i == Find(s, sep, 1)
    IN  IF i = 0 THEN s
        ELSE SplitLast(SubSeq(s, i + Len(sep), Len(s)), sep)

\* s.lstrip(c)
RECURSIVE LStrip(_, _)
LStrip(s, c) ==
    IF s # <<>> /\ Head(s) = c THEN LStrip(Tail(s), c) ELSE s

\* s.rstrip(c)
RECURSIVE RStrip(_, _)
RStrip(s, c) ==
    IF s # <<>> /\ s[Len(s)] = c THEN RStrip(SubSeq(s, 1, Len(s) - 1), c) ELSE s

\* rstrip in place of strip: only the trailing characters go.
Strip_TrailingOnly(s, c) == RStrip(s, c)

\* s.strip(c)
Strip(s, c) == RStrip(LStrip(s, c), c)

\* s.replace(a, b) for one-character a and b.
Replace(s, a, b) == [i \in 1..Len(s) |-> IF s[i] = a THEN b ELSE s[i]]

\* get_clean_slug(url)
get_clean_slug(url) == Replace(Strip(SplitLast(url, REQUIRED_PATH), "/"), "-", " ")

\* The test of line 71 without its second half: the excluded languages
\* pass.
Wanted_MarkerOnly(url_text) == Contains(url_text, REQUIRED_PATH)

\* The test of line 71: the entry has the required path and no excluded
\* language marker.
Wanted(url_text) ==
    /\ Contains(url_text, REQUIRED_PATH)
    /\ ~ \E k \in 1..Len(EXCLUDED_LANGS) : Contains(url_text, EXCLUDED_LANGS[k])

\* ------------------------------------------------------- the sitemap pool

\* The text of a <loc> element with no text (url.text is None).
NoText == <<"<None>">>

Host == <<"x">>

\* x/get-started/a-b/
UrlAB == Host \o REQUIRED_PATH \o <<"a", "-", "b", "/">>

\* x/get-started/a-b : another identifier of the same slug
UrlAB2 == Host \o REQUIRED_PATH \o <<"a", "-", "b">>

\* x/get-started/c/
UrlC == Host \o REQUIRED_PATH \o <<"c", "/">>

\* x/de/get-started/c/ : an excluded language
UrlDeC == Host \o <<"/", "d", "e">> \o REQUIRED_PATH \o <<"c", "/">>

\* x/about/ : no required path
UrlOther == Host \o <<"/", "a", "/">>

LocPool == {UrlAB, UrlAB2, UrlC, UrlDeC, UrlOther, NoText}

\* The sitemap documents: every sequence of at most MaxUrls <loc> entries.
Sitemaps == UNION {[1..n -> LocPool] : n \in 0..MaxUrls}

\* The slugs of the pool's candidates.
Slugs == {get_clean_slug(u) : u \in {v \in LocPool \ {NoText} : Wanted(v)}}

\* The error descriptions str(e) of a failed generation.
Errors == {<<"4", "2", "9">>}

\* What requests.get and ET.fromstring give: a parsed document with its
\* <loc> texts, or an exception (network error, bad status, malformed XML).
Responses == {[ok |-> TRUE, locs |-> d] : d \in Sitemaps}
                \cup {[ok |-> FALSE, locs |-> <<>>]}

\* fetch_sitemap_urls() on a response: the wanted entries in document order;
\* [] when anything raises, which includes the TypeError of `in` on the text
\* None of an empty <loc>.
fetch_sitemap_urls(response) ==
    IF ~response.ok \/ NoText \in Range(response.locs)
    THEN <<>>
    ELSE SelectSeq(response.locs, Wanted)

\* ------------------------------------------------------ checkpoint state

\* {'processed_slugs': [], 'failed_slugs': []}
FreshState == [processed_slugs |-> <<>>, failed_slugs |-> <<>>]

\* SAVE_STATE_FILE on disk: absent, holding a JSON document, or holding
\* text that is no JSON document (the file between open(..., 'w') truncating
\* it and json.dump's output being complete).
FileAbsent == [kind |-> "absent", data |-> FreshState]
FileCorrupt == [kind |-> "corrupt", data |-> FreshState]
FileJson(st) == [kind |-> "json", data |-> st]

\* The membership test left out: nothing counts as processed.
AlreadyProcessed_Never(slug, st) == FALSE

\* The membership test widened to the slugs of failed_slugs: a failure counts
\* as done.
AlreadyProcessed_OrFailed(slug, st) ==
    \/ slug \in Range(st.processed_slugs)
    \/ \E j \in 1..Len(st.failed_slugs) : st.failed_slugs[j].slug = slug

\* The membership test reduced to the last entry of processed_slugs.
AlreadyProcessed_LastOnly(slug, st) ==
    /\ st.processed_slugs # <<>>
    /\ st.processed_slugs[Len(st.processed_slugs)] = slug

\* `slug in state['processed_slugs']`
AlreadyProcessed(slug, st) == slug \in Range(st.processed_slugs)

\* f"{slug.replace(' ', '_')}_icon.png" under OUTPUT_DIR
IconFile(slug) == Replace(slug, " ", "_") \o <<"_", "i", "c", "o", "n", ".", "p", "n", "g">>

\* ----------------------------------------------------------------- state

VARIABLES
    pc,          \* where the process is: idle | load | fetch | loop | generate |
                 \*   gen_return | record | save_open | save_dump | sleep |
                 \*   summary | exited | killed
    run,         \* how many times the script has been started
    apiKey,      \* whether OPENAI_API_KEY is set for this process
    exitCode,    \* exit status of the last process that exited
    raised,      \* the uncaught exception that ended it ("none" if none)
    atBoundary,  \* the last process to stop was killed between two items
    flushedBefore, \* the value of flushed when this process started
    disk,        \* SAVE_STATE_FILE
    artifacts,   \* the files of OUTPUT_DIR
    state,       \* main's `state`
    loadedState, \* what load_save_state returned to this run
    urls,        \* main's `urls`
    idx,         \* position of the for loop in urls (1-based)
    success,     \* main's `success`
    result,      \* main's `result`
    outcome,     \* per candidate: Pending | Skipped | Succeeded | Failed
    printed,     \* the failure lines this run printed under "Failed generations:"
    loaded,      \* load_save_state was called in this run
    fetched,     \* fetch_sitemap_urls was called in this run
    genCalls,    \* calls of generate_icon in this run
    saves,       \* calls of save_state in this run
    delays,      \* calls of time.sleep(2) in this run
    saveFailed,  \* a save_state call of this run raised
    succCount,   \* per slug: how often generate_icon returned (True, path), ever
    flushed,     \* slugs whose success was followed by a completed save_state
    call,        \* a function called on its own: its name and argument
    ret          \* whether that call has returned, and its value

procVars == <<pc, run, apiKey, exitCode, raised, atBoundary, flushedBefore>>
envVars == <<disk, artifacts>>
mainVars == <<state, loadedState, urls, idx, success, result, outcome, printed>>
traceVars == <<loaded, fetched, genCalls, saves, delays, saveFailed>>
histVars == <<succCount, flushed>>
fnVars == <<call, ret>>
vars == <<procVars, envVars, mainVars, traceVars, histVars, fnVars>>

Stopped == {"idle", "exited", "killed"}
Running == {"load", "fetch", "loop", "generate", "gen_return", "record",
            "save_open", "save_dump", "sleep", "summary"}

\* get_clean_slug on every URL a sitemap can hold, computed once.
SlugOf == [u \in LocPool \ {NoText} |-> get_clean_slug(u)]

\* The slug of the candidate the loop is at (line 126).
CurSlug == SlugOf[urls[idx]]

\* No function is called on its own.
NoCall == [fn |-> "none", arg |-> <<>>]
NoRet == [done |-> FALSE, val |-> <<>>]

\* The script has not been started.
NotStarted ==
    /\ pc = "idle" /\ run = 0 /\ apiKey = FALSE /\ exitCode = 0
    /\ raised = "none" /\ atBoundary = FALSE /\ flushedBefore = {}
    /\ disk = FileAbsent /\ artifacts = {}
    /\ state = FreshState /\ loadedState = FreshState
    /\ urls = <<>> /\ idx = 0 /\ success = FALSE /\ result = <<>>
    /\ outcome = <<>> /\ printed = <<>>
    /\ loaded = FALSE /\ fetched = FALSE /\ genCalls = 0 /\ saves = 0
    /\ delays = 0 /\ saveFailed = FALSE
    /\ succCount = [s \in Slugs |-> 0] /\ flushed = {}

Init == NotStarted /\ call = NoCall /\ ret = NoRet

\* A new process: nothing of the previous process's memory is left.
NewProcess(key) ==
    /\ pc \in Stopped
    /\ run < MaxRuns
    /\ run' = run + 1
    /\ apiKey' = key
    /\ flushedBefore' = flushed
    /\ raised' = "none"
    /\ state' = FreshState /\ loadedState' = FreshState
    /\ urls' = <<>> /\ idx' = 0 /\ success' = FALSE /\ result' = <<>>
    /\ outcome' = <<>> /\ printed' = <<>>
    /\ loaded' = FALSE /\ fetched' = FALSE /\ genCalls' = 0 /\ saves' = 0
    /\ delays' = 0 /\ saveFailed' = FALSE
    /\ UNCHANGED <<envVars, histVars, call, ret>>

\* An uncaught exception ends the process with a traceback and status 1.
Raise(exc) ==
    /\ pc' = "exited" /\ exitCode' = 1 /\ raised' = exc /\ atBoundary' = FALSE
    /\ UNCHANGED <<call, ret, run, apiKey, flushedBefore>>

\* __main__ without the sys.exit(1) of line 166: main() is called with no
\* key.
ExitNoKey_EntersMain ==
    /\ NewProcess(FALSE)
    /\ pc' = "load" /\ UNCHANGED <<exitCode, atBoundary>>

\* __main__ with no OPENAI_API_KEY: sys.exit(1).
ExitNoKey ==
    /\ NewProcess(FALSE)
    /\ pc' = "exited" /\ exitCode' = 1 /\ atBoundary' = FALSE

\* __main__ with OPENAI_API_KEY set: main() is called.
EnterMain ==
    /\ NewProcess(TRUE)
    /\ pc' = "load" /\ UNCHANGED <<exitCode, atBoundary>>

\* ------------------------------------------------------------------ main

\* An except clause that catches every exception: load_save_state never
\* raises.
LoadRaises_Never(file) == FALSE

\* load_save_state raises: json.load's JSONDecodeError is no
\* FileNotFoundError, so the except clause of line 42 does not catch it.
LoadRaises(file) == file.kind = "corrupt"

\* The file ignored: every run starts from the fresh state.
load_save_state_Fresh(file) == FreshState

\* load_save_state(): the document of the file, the fresh state when there
\* is no file.
load_save_state(file) == IF file.kind = "json" THEN file.data ELSE FreshState

\* line 117, load_save_state returns.
LoadOk ==
    /\ pc = "load" /\ ~LoadRaises(disk)
    /\ state' = load_save_state(disk)
    /\ loadedState' = state'
    /\ loaded' = TRUE
    /\ pc' = "fetch"
    /\ UNCHANGED <<call, ret, run, apiKey, exitCode, raised, atBoundary, flushedBefore, envVars, histVars>>
    /\ UNCHANGED <<urls, idx, success, result, outcome, printed>>
    /\ UNCHANGED <<fetched, genCalls, saves, delays, saveFailed>>

\* line 117, load_save_state raises and main does not catch it.
LoadRaise ==
    /\ pc = "load" /\ LoadRaises(disk)
    /\ loaded' = TRUE
    /\ Raise("JSONDecodeError")
    /\ UNCHANGED <<envVars, mainVars, histVars>>
    /\ UNCHANGED <<fetched, genCalls, saves, delays, saveFailed>>

\* lines 120-121, fetch_sitemap_urls() on whatever the site answers.
Fetch ==
    /\ pc = "fetch"
    /\ \E r \in Responses : urls' = fetch_sitemap_urls(r)
    /\ outcome' = [i \in 1..Len(urls') |-> "Pending"]
    /\ idx' = 1
    /\ fetched' = TRUE
    /\ pc' = "loop"
    /\ UNCHANGED <<call, ret, run, apiKey, exitCode, raised, atBoundary, flushedBefore, envVars, histVars>>
    /\ UNCHANGED <<state, loadedState, success, result, printed>>
    /\ UNCHANGED <<loaded, genCalls, saves, delays, saveFailed>>

\* The skip with the delay of line 150 before `continue`.
LoopSkip_WithDelay ==
    /\ pc = "loop" /\ idx <= Len(urls)
    /\ AlreadyProcessed(CurSlug, state)
    /\ outcome' = [outcome EXCEPT ![idx] = "Skipped"]
    /\ idx' = idx + 1
    /\ delays' = delays + 1
    /\ UNCHANGED <<call, ret, procVars, envVars, histVars>>
    /\ UNCHANGED <<loaded, fetched, genCalls, saves, saveFailed>>
    /\ UNCHANGED <<state, loadedState, urls, success, result, printed>>

\* lines 124-130, the candidate's slug is in processed_slugs: continue.
LoopSkip ==
    /\ pc = "loop" /\ idx <= Len(urls)
    /\ AlreadyProcessed(CurSlug, state)
    /\ outcome' = [outcome EXCEPT ![idx] = "Skipped"]
    /\ idx' = idx + 1
    /\ UNCHANGED <<call, ret, procVars, envVars, histVars, traceVars>>
    /\ UNCHANGED <<state, loadedState, urls, success, result, printed>>

\* lines 124-135, the slug is not in processed_slugs: generate_icon(slug)
\* is called.
LoopAttempt ==
    /\ pc = "loop" /\ idx <= Len(urls)
    /\ ~AlreadyProcessed(CurSlug, state)
    /\ genCalls' = genCalls + 1
    /\ pc' = "generate"
    /\ UNCHANGED <<call, ret, run, apiKey, exitCode, raised, atBoundary, flushedBefore, envVars, histVars, mainVars>>
    /\ UNCHANGED <<loaded, fetched, saves, delays, saveFailed>>

\* line 124, urls is exhausted: lines 152-153.
LoopEnd ==
    /\ pc = "loop" /\ idx > Len(urls)
    /\ pc' = "summary"
    /\ UNCHANGED <<call, ret, run, apiKey, exitCode, raised, atBoundary, flushedBefore, envVars, histVars, mainVars>>
    /\ UNCHANGED traceVars

\* generate_icon without line 105: the image is fetched and opened but not
\* written to OUTPUT_DIR.
ImageSaved_NoWrite ==
    /\ pc = "generate"
    /\ pc' = "gen_return"
    /\ UNCHANGED <<call, ret, run, apiKey, exitCode, raised, atBoundary, flushedBefore, envVars, histVars, mainVars>>
    /\ UNCHANGED traceVars

\* generate_icon, lines 84-105: the image is requested, downloaded, resized
\* and written to its file.
ImageSaved ==
    /\ pc = "generate"
    /\ artifacts' = artifacts \cup {IconFile(CurSlug)}
    /\ pc' = "gen_return"
    /\ UNCHANGED <<call, ret, run, apiKey, exitCode, raised, atBoundary, flushedBefore, disk, histVars, mainVars>>
    /\ UNCHANGED traceVars

\* generate_icon, line 106: return True, filepath.
GenerateReturn ==
    /\ pc = "gen_return"
    /\ success' = TRUE
    /\ result' = IconFile(CurSlug)
    /\ succCount' = [succCount EXCEPT ![CurSlug] = @ + 1]
    /\ pc' = "record"
    /\ UNCHANGED <<call, ret, run, apiKey, exitCode, raised, atBoundary, flushedBefore, envVars, flushed>>
    /\ UNCHANGED <<state, loadedState, urls, idx, outcome, printed>>
    /\ UNCHANGED traceVars

\* generate_icon, lines 108-110: a step of lines 84-105 raised; the
\* exception is caught and returned as False, str(e).
GenerateFail ==
    /\ pc = "generate"
    /\ Len(state.failed_slugs) < MaxFailed
    /\ \E e \in Errors : result' = e
    /\ success' = FALSE
    /\ pc' = "record"
    /\ UNCHANGED <<call, ret, run, apiKey, exitCode, raised, atBoundary, flushedBefore, envVars, histVars>>
    /\ UNCHANGED <<state, loadedState, urls, idx, outcome, printed>>
    /\ UNCHANGED traceVars

\* The else branch ending the loop: a failure is recorded and the batch
\* abandoned.
RecordOutcome_BreakOnFailure ==
    /\ pc = "record"
    /\ IF success
       THEN /\ state' = [state EXCEPT !.processed_slugs = Append(@, CurSlug)]
            /\ outcome' = [outcome EXCEPT ![idx] = "Succeeded"]
            /\ pc' = "save_open"
       ELSE /\ state' = [state EXCEPT !.failed_slugs =
                             Append(@, [slug |-> CurSlug, error |-> result])]
            /\ outcome' = [outcome EXCEPT ![idx] = "Failed"]
            /\ pc' = "summary"
    /\ UNCHANGED <<call, ret, run, apiKey, exitCode, raised, atBoundary, flushedBefore, envVars, histVars>>
    /\ UNCHANGED <<loadedState, urls, idx, success, result, printed>>
    /\ UNCHANGED traceVars

\* A success that also clears the slug's earlier entries from failed_slugs.
RecordOutcome_RemovesFailedOnSuccess ==
    /\ pc = "record"
    /\ IF success
       THEN /\ state' = [state EXCEPT
                            !.processed_slugs = Append(@, CurSlug),
                            !.failed_slugs =
                                SelectSeq(@, LAMBDA e : e.slug # CurSlug)]
            /\ outcome' = [outcome EXCEPT ![idx] = "Succeeded"]
       ELSE /\ state' = [state EXCEPT !.failed_slugs =
                             Append(@, [slug |-> CurSlug, error |-> result])]
            /\ outcome' = [outcome EXCEPT ![idx] = "Failed"]
    /\ pc' = "save_open"
    /\ UNCHANGED <<call, ret, run, apiKey, exitCode, raised, atBoundary, flushedBefore, envVars, histVars>>
    /\ UNCHANGED <<loadedState, urls, idx, success, result, printed>>
    /\ UNCHANGED traceVars

\* The save_state call of line 147 moved after the loop: the outcome is
\* appended and the loop goes on to the delay.
RecordOutcome_SaveDeferred ==
    /\ pc = "record"
    /\ IF success
       THEN /\ state' = [state EXCEPT !.processed_slugs = Append(@, CurSlug)]
            /\ outcome' = [outcome EXCEPT ![idx] = "Succeeded"]
       ELSE /\ state' = [state EXCEPT !.failed_slugs =
                             Append(@, [slug |-> CurSlug, error |-> result])]
            /\ outcome' = [outcome EXCEPT ![idx] = "Failed"]
    /\ pc' = "sleep"
    /\ UNCHANGED <<call, ret, run, apiKey, exitCode, raised, atBoundary, flushedBefore, envVars, histVars>>
    /\ UNCHANGED <<loadedState, urls, idx, success, result, printed>>
    /\ UNCHANGED traceVars

\* The append of line 142 outside the else branch: every attempt adds an
\* entry to failed_slugs.
RecordOutcome_AlwaysFailedEntry ==
    /\ pc = "record"
    /\ IF success
       THEN /\ state' = [state EXCEPT
                            !.processed_slugs = Append(@, CurSlug),
                            !.failed_slugs =
                                Append(@, [slug |-> CurSlug, error |-> result])]
            /\ outcome' = [outcome EXCEPT ![idx] = "Succeeded"]
       ELSE /\ state' = [state EXCEPT !.failed_slugs =
                             Append(@, [slug |-> CurSlug, error |-> result])]
            /\ outcome' = [outcome EXCEPT ![idx] = "Failed"]
    /\ pc' = "save_open"
    /\ UNCHANGED <<call, ret, run, apiKey, exitCode, raised, atBoundary, flushedBefore, envVars, histVars>>
    /\ UNCHANGED <<loadedState, urls, idx, success, result, printed>>
    /\ UNCHANGED traceVars

\* lines 137-144: the outcome is appended to the in-memory state.
RecordOutcome ==
    /\ pc = "record"
    /\ IF success
       THEN /\ state' = [state EXCEPT !.processed_slugs = Append(@, CurSlug)]
            /\ outcome' = [outcome EXCEPT ![idx] = "Succeeded"]
       ELSE /\ state' = [state EXCEPT !.failed_slugs =
                             Append(@, [slug |-> CurSlug, error |-> result])]
            /\ outcome' = [outcome EXCEPT ![idx] = "Failed"]
    /\ pc' = "save_open"
    /\ UNCHANGED <<call, ret, run, apiKey, exitCode, raised, atBoundary, flushedBefore, envVars, histVars>>
    /\ UNCHANGED <<loadedState, urls, idx, success, result, printed>>
    /\ UNCHANGED traceVars

\* save_state, line 47: open(SAVE_STATE_FILE, 'w') truncates the file.
SaveOpen ==
    /\ pc = "save_open"
    /\ disk' = FileCorrupt
    /\ saves' = saves + 1
    /\ pc' = "save_dump"
    /\ UNCHANGED <<call, ret, run, apiKey, exitCode, raised, atBoundary, flushedBefore, artifacts, histVars, mainVars>>
    /\ UNCHANGED <<loaded, fetched, genCalls, delays, saveFailed>>

\* save_state, line 47: open raises (no permission, read-only directory);
\* neither save_state nor main catches it. The file is as it was.
SaveOpenFail ==
    /\ pc = "save_open"
    /\ saves' = saves + 1
    /\ saveFailed' = TRUE
    /\ Raise("OSError")
    /\ UNCHANGED <<envVars, histVars, mainVars>>
    /\ UNCHANGED <<loaded, fetched, genCalls, delays>>

\* save_state dumping only the processed slugs: the failures in memory
\* do not reach the file.
SaveDump_DropsFailed ==
    /\ pc = "save_dump"
    /\ disk' = FileJson([state EXCEPT !.failed_slugs = <<>>])
    /\ flushed' = IF success THEN flushed \cup {CurSlug} ELSE flushed
    /\ pc' = "sleep"
    /\ UNCHANGED <<call, ret, run, apiKey, exitCode, raised, atBoundary, flushedBefore, artifacts, succCount, mainVars>>
    /\ UNCHANGED traceVars

\* save_state, line 48 and the end of the with block: the whole state is
\* written and the file closed.
SaveDump ==
    /\ pc = "save_dump"
    /\ disk' = FileJson(state)
    /\ flushed' = IF success THEN flushed \cup {CurSlug} ELSE flushed
    /\ pc' = "sleep"
    /\ UNCHANGED <<call, ret, run, apiKey, exitCode, raised, atBoundary, flushedBefore, artifacts, succCount, mainVars>>
    /\ UNCHANGED traceVars

\* The write error caught and ignored around save_state: the loop goes on.
SaveDumpFail_Swallowed ==
    /\ pc = "save_dump"
    /\ saveFailed' = TRUE
    /\ pc' = "sleep"
    /\ UNCHANGED <<call, ret, run, apiKey, exitCode, raised, atBoundary, flushedBefore, envVars, histVars, mainVars>>
    /\ UNCHANGED <<loaded, fetched, genCalls, saves, delays>>

\* save_state, line 48: the write raises (disk full); the file keeps
\* whatever part was written, which is no JSON document.
SaveDumpFail ==
    /\ pc = "save_dump"
    /\ saveFailed' = TRUE
    /\ Raise("OSError")
    /\ UNCHANGED <<envVars, histVars, mainVars>>
    /\ UNCHANGED <<loaded, fetched, genCalls, saves, delays>>

\* time.sleep of line 150 inside the success branch: a failed attempt is
\* followed by no delay.
Sleep_OnSuccessOnly ==
    /\ pc = "sleep"
    /\ delays' = IF success THEN delays + 1 ELSE delays
    /\ idx' = idx + 1
    /\ pc' = "loop"
    /\ UNCHANGED <<call, ret, run, apiKey, exitCode, raised, atBoundary, flushedBefore, envVars, histVars>>
    /\ UNCHANGED <<state, loadedState, urls, success, result, outcome, printed>>
    /\ UNCHANGED <<loaded, fetched, genCalls, saves, saveFailed>>

\* line 150, time.sleep(2), and the loop moves to the next candidate.
Sleep ==
    /\ pc = "sleep"
    /\ delays' = delays + 1
    /\ idx' = idx + 1
    /\ pc' = "loop"
    /\ UNCHANGED <<call, ret, run, apiKey, exitCode, raised, atBoundary, flushedBefore, envVars, histVars>>
    /\ UNCHANGED <<state, loadedState, urls, success, result, outcome, printed>>
    /\ UNCHANGED <<loaded, fetched, genCalls, saves, saveFailed>>

\* The summary listing only the failures appended by this run.
Summary_ThisRunOnly ==
    /\ pc = "summary"
    /\ printed' = SubSeq(state.failed_slugs, Len(loadedState.failed_slugs) + 1,
                         Len(state.failed_slugs))
    /\ pc' = "exited" /\ exitCode' = 0 /\ atBoundary' = FALSE
    /\ UNCHANGED <<call, ret, run, apiKey, raised, flushedBefore, envVars, histVars, traceVars>>
    /\ UNCHANGED <<state, loadedState, urls, idx, success, result, outcome>>

\* The summary followed by a reset of the failure list, written to the
\* file, so that the next run starts with no failures on record.
Summary_ClearsFailures ==
    /\ pc = "summary"
    /\ printed' = state.failed_slugs
    /\ state' = [state EXCEPT !.failed_slugs = <<>>]
    /\ disk' = FileJson(state')
    /\ pc' = "exited" /\ exitCode' = 0 /\ atBoundary' = FALSE
    /\ UNCHANGED <<call, ret, run, apiKey, raised, flushedBefore, artifacts, histVars, traceVars>>
    /\ UNCHANGED <<loadedState, urls, idx, success, result, outcome>>

\* lines 155-158 and the return of main: the failure lines are printed and
\* the process exits with status 0.
Summary ==
    /\ pc = "summary"
    /\ printed' = state.failed_slugs
    /\ pc' = "exited" /\ exitCode' = 0 /\ atBoundary' = FALSE
    /\ UNCHANGED <<call, ret, run, apiKey, raised, flushedBefore, envVars, histVars, traceVars>>
    /\ UNCHANGED <<state, loadedState, urls, idx, success, result, outcome>>

\* The process is terminated from outside (kill, power loss, Ctrl-C) at
\* whatever point it has reached; the files stay as they are and the
\* process's memory is gone.
Kill ==
    /\ pc \in Running
    /\ pc' = "killed" /\ atBoundary' = (pc \in {"loop", "sleep"})
    /\ state' = FreshState /\ loadedState' = FreshState
    /\ urls' = <<>> /\ idx' = 0 /\ success' = FALSE /\ result' = <<>>
    /\ outcome' = <<>> /\ printed' = <<>>
    /\ loaded' = FALSE /\ fetched' = FALSE /\ genCalls' = 0 /\ saves' = 0
    /\ delays' = 0 /\ saveFailed' = FALSE
    /\ UNCHANGED <<call, ret, run, apiKey, exitCode, raised, flushedBefore, envVars, histVars>>

Next ==
    \/ ExitNoKey
    \/ EnterMain
    \/ LoadOk
    \/ LoadRaise
    \/ Fetch
    \/ LoopSkip
    \/ LoopAttempt
    \/ LoopEnd
    \/ ImageSaved
    \/ GenerateReturn
    \/ GenerateFail
    \/ RecordOutcome
    \/ SaveOpen
    \/ SaveOpenFail
    \/ SaveDump
    \/ SaveDumpFail
    \/ Sleep
    \/ Summary
    \/ Kill

Spec == Init /\ [][Next]_vars

\* The steps of runs in which nothing goes wrong outside generate_icon: the
\* process is not killed and save_state does not raise (so that no file is
\* left for load_save_state to raise on).
FaultFreeNext ==
    \/ ExitNoKey
    \/ EnterMain
    \/ LoadOk
    \/ Fetch
    \/ LoopSkip
    \/ LoopAttempt
    \/ LoopEnd
    \/ ImageSaved
    \/ GenerateReturn
    \/ GenerateFail
    \/ RecordOutcome
    \/ SaveOpen
    \/ SaveDump
    \/ Sleep
    \/ Summary

\* The script is sequential: whatever statement is next is executed.
LiveSpec == Init /\ [][FaultFreeNext]_vars /\ WF_vars(FaultFreeNext)

\* ------------------------------------------- functions called on their own

\* The documents given to fetch_sitemap_urls: every sequence of at most
\* MaxLocs <loc> entries, and the failed request.
FnResponses == {[ok |-> TRUE, locs |-> d] : d \in UNION {[1..n -> LocPool] : n \in 0..MaxLocs}}
                  \cup {[ok |-> FALSE, locs |-> <<>>]}

\* https://x/get-started/Some-Thing/
ExampleUrl ==
    <<"h", "t", "t", "p", "s", ":", "/", "/", "x">> \o REQUIRED_PATH
        \o <<"S", "o", "m", "e", "-", "T", "h", "i", "n", "g", "/">>

\* The identifiers given to get_clean_slug: the path marker, once or twice,
\* followed by at most MaxTail characters; and the example.
TailChars == {"/", "-", "a", "b"}
Tails == UNION {[1..n -> TailChars] : n \in 0..MaxTail}
Identifiers ==
    {Host \o REQUIRED_PATH \o t : t \in Tails}
        \cup {Host \o REQUIRED_PATH \o <<"a">> \o REQUIRED_PATH \o t : t \in Tails}
        \cup {ExampleUrl}

\* One function is about to be called with one argument.
FnInit ==
    /\ NotStarted
    /\ ret = NoRet
    /\ \/ \E r \in FnResponses : call = [fn |-> "fetch_sitemap_urls", arg |-> r]
       \/ \E u \in Identifiers : call = [fn |-> "get_clean_slug", arg |-> u]

\* fetch_sitemap_urls() runs on the document and returns.
CallFetch ==
    /\ call.fn = "fetch_sitemap_urls" /\ ~ret.done
    /\ ret' = [done |-> TRUE, val |-> fetch_sitemap_urls(call.arg)]
    /\ UNCHANGED <<call, procVars, envVars, mainVars, traceVars, histVars>>

\* get_clean_slug(url) runs on the identifier and returns.
CallSlug ==
    /\ call.fn = "get_clean_slug" /\ ~ret.done
    /\ ret' = [done |-> TRUE, val |-> get_clean_slug(call.arg)]
    /\ UNCHANGED <<call, procVars, envVars, mainVars, traceVars, histVars>>

FnNext ==
    \/ CallFetch
    \/ CallSlug

FnSpec == FnInit /\ [][FnNext]_vars

\* ================================================================ claims

\* The slugs of a list of slugs, and of the entries of a failed list.
ProcessedSet(st) == Range(st.processed_slugs)
FailedSet(st) == {st.failed_slugs[j].slug : j \in 1..Len(st.failed_slugs)}

\* The slugs of the candidates that succeeded so far in this run.
SucceededThisRun ==
    {get_clean_slug(urls[i]) : i \in {j \in 1..Len(urls) : outcome[j] = "Succeeded"}}

\* ---------------------------------------------------------------- C1
\* C1 as stated: over any number of runs, each possibly killed at any point,
\* generate_icon returns success for a slug at most once in total.
C1_AtMostOnceSuccess == \A s \in Slugs : succCount[s] <= 1

\* C1 as amended: generate_icon never returns success for a slug whose
\* success has been flushed by a completed save_state, nor twice for one slug
\* within a run; only a success whose flush had not completed when the
\* process stopped can be repeated by a later run.
C1_AtMostOnceOnceFlushed ==
    [][\A s \in Slugs :
          succCount'[s] > succCount[s] =>
              /\ s \notin flushed
              /\ s \notin SucceededThisRun]_vars

\* A second run has skipped a slug that succeeded once and was flushed.
C1_Witness ==
    /\ run >= 2
    /\ \E i \in 1..Len(urls) :
          /\ outcome[i] = "Skipped"
          /\ get_clean_slug(urls[i]) \in flushedBefore
          /\ succCount[get_clean_slug(urls[i])] = 1

\* ---------------------------------------------------------------- C2
\* C2: when the loop reaches a candidate whose slug is in processed_slugs,
\* main moves on to the next candidate without calling generate_icon or
\* save_state, without sleeping, and without changing processed_slugs,
\* failed_slugs, the checkpoint file or the output directory.
C2_IdempotentSkip ==
    [][(/\ pc = "loop" /\ idx <= Len(urls)
        /\ CurSlug \in ProcessedSet(state)
        /\ pc' # "killed")
       => /\ pc' = "loop" /\ idx' = idx + 1
          /\ UNCHANGED <<state, disk, artifacts, genCalls, saves, delays>>]_vars

\* A candidate has been skipped and the loop is at the next one.
C2_Witness ==
    /\ pc = "loop" /\ idx > 1
    /\ outcome[idx - 1] = "Skipped"

\* ---------------------------------------------------------------- C3
\* C3 as stated: in a run started after the previous process was killed
\* between two items, a candidate is skipped exactly when its slug had been
\* successfully processed and flushed before the kill, and is attempted
\* otherwise.
C3_SkipsExactlyFlushed ==
    [][(/\ atBoundary /\ pc = "loop" /\ idx <= Len(urls) /\ pc' # "killed")
       => IF CurSlug \in flushedBefore
          THEN pc' = "loop" /\ genCalls' = genCalls
          ELSE pc' = "generate" /\ genCalls' = genCalls + 1]_vars

\* C3 as amended: in such a run the loaded processed_slugs are exactly the
\* slugs flushed before the kill, and a candidate is skipped exactly when its
\* slug was flushed before the kill or has succeeded earlier in this same
\* run (another identifier of the same slug); every other candidate is
\* attempted.
C3_SkipsFlushedOrDoneThisRun ==
    [][/\ (atBoundary /\ pc = "load" /\ pc' # "killed")
          => pc' = "fetch" /\ ProcessedSet(state') = flushedBefore
       /\ (atBoundary /\ pc = "loop" /\ idx <= Len(urls) /\ pc' # "killed")
          => IF CurSlug \in flushedBefore \cup SucceededThisRun
             THEN pc' = "loop" /\ genCalls' = genCalls
             ELSE pc' = "generate" /\ genCalls' = genCalls + 1]_vars

\* After a kill between two items, the next run has skipped a flushed slug
\* and attempted another candidate.
C3_Witness ==
    /\ atBoundary /\ run >= 2 /\ pc = "loop"
    /\ \E i, j \in 1..Len(urls) :
          /\ outcome[i] = "Skipped"
          /\ get_clean_slug(urls[i]) \in flushedBefore
          /\ outcome[j] \in {"Succeeded", "Failed"}

\* ---------------------------------------------------------------- C4
\* C4: whenever the process has been killed, at whatever point, the
\* checkpoint file the next run will load is a JSON document that holds
\* every slug whose success was flushed.
C4_BoundedLoss ==
    pc = "killed" =>
        \A s \in flushed : disk.kind = "json" /\ s \in ProcessedSet(disk.data)

\* ---------------------------------------------------------------- C5
\* C5: when generate_icon fails for a candidate, its (slug, error) pair is
\* appended to failed_slugs, processed_slugs is unchanged and does not hold
\* the slug, the run goes on to save_state and, after the delay, to the next
\* candidate; a run that reaches its summary has left no candidate pending.
C5_FailureIsolation ==
    [][/\ (pc = "record" /\ ~success /\ pc' # "killed")
          => /\ state'.failed_slugs =
                    Append(state.failed_slugs, [slug |-> CurSlug, error |-> result])
             /\ state'.processed_slugs = state.processed_slugs
             /\ CurSlug \notin ProcessedSet(state')
             /\ outcome'[idx] = "Failed"
             /\ pc' = "save_open" /\ idx' = idx
       /\ (pc = "sleep" /\ ~success /\ pc' # "killed")
          => pc' = "loop" /\ idx' = idx + 1
       /\ pc' = "summary"
          => \A i \in 1..Len(urls') : outcome'[i] # "Pending"]_vars

\* A run has reached its summary with a failed candidate followed by an
\* attempted one.
C5_Witness ==
    /\ pc = "summary"
    /\ \E k, j \in 1..Len(urls) :
          /\ k < j
          /\ outcome[k] = "Failed"
          /\ outcome[j] \in {"Succeeded", "Failed"}
          /\ get_clean_slug(urls[k]) \in FailedSet(state)

C7_SaveFailureFatal ==
    saveFailed =>
        /\ pc = "exited" /\ exitCode # 0 /\ raised = "OSError"
        /\ \A j \in (idx + 1)..Len(urls) : outcome[j] = "Pending"
        /\ genCalls = Cardinality({j \in 1..idx : outcome[j] \in {"Succeeded", "Failed"}})

\* save_state has raised with a candidate still to come.
C7_Witness == saveFailed /\ idx < Len(urls)

\* ---------------------------------------------------------------- C8
\* C8 as stated: when fetch_sitemap_urls returns [], main goes through the
\* empty loop to its end and exits with status 0, without a generate_icon or
\* save_state call and without changing the checkpoint, and prints no
\* failure entry.
C8_EmptyCatalogEmptySummary ==
    [][(pc \in {"fetch", "loop", "summary"} /\ urls' = <<>> /\ pc' # "killed")
       => /\ UNCHANGED <<disk, state, artifacts>>
          /\ genCalls' = 0 /\ saves' = 0
          /\ CASE pc = "fetch" -> pc' = "loop"
               [] pc = "loop" -> pc' = "summary"
               [] pc = "summary" ->
                     pc' = "exited" /\ exitCode' = 0 /\ printed' = <<>>]_vars

\* C8 as amended: the same, except that the summary prints exactly the
\* failure entries of the checkpoint the run loaded (none only when that
\* checkpoint holds no failure).
C8_EmptyCatalogPrintsLoadedFailures ==
    [][(pc \in {"fetch", "loop", "summary"} /\ urls' = <<>> /\ pc' # "killed")
       => /\ UNCHANGED <<disk, state, artifacts>>
          /\ genCalls' = 0 /\ saves' = 0
          /\ CASE pc = "fetch" -> pc' = "loop"
               [] pc = "loop" -> pc' = "summary"
               [] pc = "summary" ->
                     /\ pc' = "exited" /\ exitCode' = 0
                     /\ printed' = loadedState.failed_slugs]_vars

\* A run with an empty catalog has ended cleanly and printed the failures of
\* an earlier run.
C8_Witness ==
    /\ pc = "exited" /\ exitCode = 0 /\ fetched /\ urls = <<>>
    /\ genCalls = 0 /\ saves = 0
    /\ printed # <<>>

\* ---------------------------------------------------------------- C9
\* C9: when the loop reaches a candidate whose slug the loaded checkpoint
\* lists in failed_slugs and which is not in processed_slugs, generate_icon
\* is called for it; when it reaches one whose slug is in processed_slugs,
\* it is skipped.
C9_RerunRetriesFailures ==
    [][(pc = "loop" /\ idx <= Len(urls) /\ pc' # "killed")
       => /\ (CurSlug \in FailedSet(loadedState) /\ CurSlug \notin ProcessedSet(state))
             => pc' = "generate" /\ genCalls' = genCalls + 1 /\ idx' = idx
          /\ CurSlug \in ProcessedSet(state)
             => pc' = "loop" /\ genCalls' = genCalls /\ idx' = idx + 1]_vars

\* A later run is calling generate_icon for a slug that an earlier run
\* recorded as failed, having skipped a processed one.
C9_Witness ==
    /\ run >= 2 /\ pc = "generate"
    /\ CurSlug \in FailedSet(loadedState)
    /\ \E i \in 1..Len(urls) : outcome[i] = "Skipped"

\* --------------------------------------------------------------- C10
\* C10: a process started without the credential exits with status 1 at
\* once: load_save_state, fetch_sitemap_urls, generate_icon and save_state
\* are not called and the checkpoint file and output directory are as they
\* were; a process started with it enters main.
C10_MissingKeyAborts ==
    [][run' = run + 1
       => IF apiKey'
          THEN pc' = "load"
          ELSE /\ pc' = "exited" /\ exitCode' = 1
               /\ ~loaded' /\ ~fetched' /\ genCalls' = 0 /\ saves' = 0
               /\ UNCHANGED <<disk, artifacts>>]_vars

\* A process without the credential has exited with status 1 while a
\* checkpoint of an earlier run exists.
C10_Witness ==
    /\ run >= 2 /\ ~apiKey /\ pc = "exited" /\ exitCode = 1
    /\ disk.kind = "json"

\* --------------------------------------------------------------- C11
\* A list holds no element twice.
NoDuplicates(s) == \A i, j \in 1..Len(s) : s[i] = s[j] => i = j

\* C11: in every reachable state no slug occurs twice in processed_slugs,
\* neither in memory nor in the checkpoint file, over any number of runs
\* started from no checkpoint and with catalogs that list several
\* identifiers of one slug.
C11_ProcessedHasNoDuplicates ==
    /\ NoDuplicates(state.processed_slugs)
    /\ NoDuplicates(loadedState.processed_slugs)
    /\ disk.kind = "json" => NoDuplicates(disk.data.processed_slugs)

\* Two different identifiers of one slug were in the catalog: the first
\* succeeded, the second was skipped, and the flushed list holds the slug.
C11_Witness ==
    /\ Len(urls) = 2 /\ urls[1] # urls[2]
    /\ get_clean_slug(urls[1]) = get_clean_slug(urls[2])
    /\ outcome = <<"Succeeded", "Skipped">>
    /\ disk.kind = "json"
    /\ get_clean_slug(urls[1]) \in ProcessedSet(disk.data)

\* --------------------------------------------------------------- C12
\* The positions of the entries of a document that have the required path
\* marker and none of the excluded language markers.
KeptPositions(locs) ==
    {j \in 1..Len(locs) :
        /\ Contains(locs[j], REQUIRED_PATH)
        /\ \A k \in 1..Len(EXCLUDED_LANGS) : ~Contains(locs[j], EXCLUDED_LANGS[k])}

\* out is locs restricted to its kept positions, in document order.
IsKeptSubsequence(locs, out) ==
    /\ Len(out) = Cardinality(KeptPositions(locs))
    /\ \E f \in [1..Len(out) -> KeptPositions(locs)] :
          /\ \A i, j \in 1..Len(out) : i < j => f[i] < f[j]
          /\ \A i \in 1..Len(out) : out[i] = locs[f[i]]

\* C12 as stated: for any list of entries of a parsed document,
\* fetch_sitemap_urls returns exactly the entries that have the required
\* marker and no excluded marker, in their original order.
C12_FilterAnyEntries ==
    (call.fn = "fetch_sitemap_urls" /\ ret.done /\ call.arg.ok)
        => IsKeptSubsequence(call.arg.locs, ret.val)

\* C12 as amended: that holds for every list whose entries all have text;
\* when some <loc> has no text the function returns [], as it does when the
\* request or the parse fails.
C12_FilterEntriesWithText ==
    (call.fn = "fetch_sitemap_urls" /\ ret.done)
        => IF call.arg.ok /\ NoText \notin Range(call.arg.locs)
           THEN IsKeptSubsequence(call.arg.locs, ret.val)
           ELSE ret.val = <<>>

\* A document with two wanted entries around an excluded-language one has
\* been filtered to the two, in order.
C12_Witness ==
    /\ call.fn = "fetch_sitemap_urls" /\ ret.done
    /\ call.arg.locs = <<UrlC, UrlDeC, UrlAB>>
    /\ ret.val = <<UrlC, UrlAB>>

\* --------------------------------------------------------------- C13
\* The path marker occurs in url at position i.
MarkerAt(url, i) ==
    /\ i + Len(REQUIRED_PATH) - 1 <= Len(url)
    /\ \A k \in 1..Len(REQUIRED_PATH) : url[i + k - 1] = REQUIRED_PATH[k]

\* out is what follows the (last) path marker of url, without the '/' at
\* its two ends and with a space for every hyphen.
IsSlugOf(url, out) ==
    \E i \in 1..Len(url) :
        /\ MarkerAt(url, i)
        /\ \A j \in (i + 1)..Len(url) : ~MarkerAt(url, j)
        /\ LET first == i + Len(REQUIRED_PATH)
           IN  \E lo \in first..(Len(url) + 1) :
                  LET hi == lo + Len(out) - 1
                  IN  /\ hi <= Len(url)
                      /\ \A k \in first..(lo - 1) : url[k] = "/"
                      /\ \A k \in (hi + 1)..Len(url) : url[k] = "/"
                      /\ Len(out) > 0 => url[lo] # "/" /\ url[hi] # "/"
                      /\ \A k \in 1..Len(out) :
                            out[k] = IF url[lo + k - 1] = "-" THEN " "
                                     ELSE url[lo + k - 1]

\* C13: get_clean_slug returns the part of the identifier after the
\* '/get-started/' marker, stripped of leading and trailing '/' and with
\* every hyphen replaced by a space; "https://x/get-started/Some-Thing/"
\* gives "Some Thing".
C13_SlugDerivation ==
    (call.fn = "get_clean_slug" /\ ret.done)
        => /\ IsSlugOf(call.arg, ret.val)
           /\ call.arg = ExampleUrl
                 => ret.val = <<"S", "o", "m", "e", " ", "T", "h", "i", "n", "g">>

\* get_clean_slug has returned on the example, an identifier with a
\* hyphenated name and a trailing '/'.
C13_Witness ==
    /\ call.fn = "get_clean_slug" /\ ret.done
    /\ call.arg = ExampleUrl
    /\ ret.val = <<"S", "o", "m", "e", " ", "T", "h", "i", "n", "g">>

\* --------------------------------------------------------------- C14
\* The loop phase of a run: urls is fetched and the summary not yet printed.
InLoopPhase == pc \in {"loop", "generate", "gen_return", "record",
                       "save_open", "save_dump", "sleep"}

\* One step of a run, seen from candidate i: a settled outcome stays, and a
\* pending one is settled only for the candidate the loop is at, together
\* with the append that goes with it.
OutcomeStep(i) ==
    /\ outcome[i] # "Pending" => outcome'[i] = outcome[i]
    /\ (outcome[i] = "Pending" /\ outcome'[i] # "Pending")
          => /\ i = idx
             /\ outcome'[i] \in {"Skipped", "Succeeded", "Failed"}
             /\ outcome'[i] = "Skipped" => state' = state
             /\ outcome'[i] = "Succeeded"
                   => /\ state'.processed_slugs =
                             Append(state.processed_slugs, get_clean_slug(urls[i]))
                      /\ state'.failed_slugs = state.failed_slugs
             /\ outcome'[i] = "Failed"
                   => /\ state'.failed_slugs =
                             Append(state.failed_slugs,
                                    [slug |-> get_clean_slug(urls[i]), error |-> result])
                      /\ state'.processed_slugs = state.processed_slugs

\* C14: within a run each candidate goes from Pending to exactly one of
\* Skipped, Succeeded, Failed and stays there, a success appending the slug
\* to processed_slugs only and a failure one (slug, error) pair to
\* failed_slugs only, the state changing in no other step of the loop; and
\* when every generate_icon call returns and every save_state succeeds, a
\* run that has started eventually ends with no candidate pending.
C14_OutcomesAndTermination ==
    /\ [][(InLoopPhase /\ run' = run /\ pc' # "killed")
            => /\ urls' = urls /\ Len(outcome') = Len(urls)
               /\ \A i \in 1..Len(urls) : OutcomeStep(i)
               /\ state' # state => outcome' # outcome]_vars
    /\ (pc \in Running) ~>
          (/\ pc = "exited" /\ exitCode = 0
           /\ \A i \in 1..Len(urls) : outcome[i] # "Pending")

\* A run has ended with one candidate of each outcome among two runs'
\* worth: a skipped one and a failed one.
C14_Witness ==
    /\ pc = "exited" /\ exitCode = 0 /\ Len(urls) = 2
    /\ outcome = <<"Skipped", "Failed">>

\* --------------------------------------------------------------- C15
\* The candidates among the first n on which generate_icon has returned and
\* whose outcome is recorded.
Attempted(n) == {j \in 1..n : outcome[j] \in {"Succeeded", "Failed"}}

\* C15: while generate_icon runs on a candidate, every candidate before it
\* in the order of fetch_sitemap_urls is settled and none after it is, the
\* call is the next one after those of the earlier attempted candidates,
\* and each of these has had its outcome recorded and its save_state
\* completed: the file holds the in-memory state with all their outcomes.
C15_SequentialInOrder ==
    pc \in {"generate", "gen_return"} =>
        /\ idx \in 1..Len(urls)
        /\ \A j \in 1..(idx - 1) : outcome[j] # "Pending"
        /\ \A j \in idx..Len(urls) : outcome[j] = "Pending"
        /\ genCalls = Cardinality(Attempted(idx - 1)) + 1
        /\ saves = Cardinality(Attempted(idx - 1))
        /\ Attempted(idx - 1) # {} =>
              /\ disk = FileJson(state)
              /\ \A j \in Attempted(idx - 1) :
                    IF outcome[j] = "Succeeded"
                    THEN SlugOf[urls[j]] \in ProcessedSet(disk.data)
                    ELSE SlugOf[urls[j]] \in FailedSet(disk.data)

\* generate_icon runs on the second candidate after the first one failed.
C15_Witness ==
    /\ pc = "generate" /\ idx = 2
    /\ outcome[1] = "Failed"

\* --------------------------------------------------------------- C16
\* The delays applied so far in the run are one for each attempted
\* candidate the loop has left behind, and none for a skipped one.
DelaysMatchAttempts ==
    /\ pc = "loop" =>
          /\ delays = Cardinality(Attempted(idx - 1))
          /\ genCalls = delays
    /\ pc \in {"generate", "gen_return", "record", "save_open", "save_dump", "sleep"} =>
          /\ delays = Cardinality(Attempted(idx - 1))
          /\ genCalls = delays + 1
    /\ (pc = "summary" \/ (pc = "exited" /\ exitCode = 0)) =>
          /\ delays = Cardinality(Attempted(Len(urls)))
          /\ genCalls = delays

\* C16: a delay is applied only for an attempted candidate, after its
\* outcome is in the file and before the loop moves to the next candidate,
\* once for each and never for a skipped one; and generate_icon is called
\* only when every earlier call of the run has been followed by a delay.
C16_DelayPlacement ==
    /\ []DelaysMatchAttempts
    /\ [][(run' = run /\ pc' # "killed") =>
            /\ delays' # delays =>
                  /\ pc = "sleep" /\ pc' = "loop"
                  /\ outcome[idx] \in {"Succeeded", "Failed"}
                  /\ disk = FileJson(state)
                  /\ delays' = delays + 1 /\ idx' = idx + 1
            /\ (idx' # idx /\ pc = "sleep") => delays' = delays + 1
            /\ (idx' # idx /\ pc = "loop") =>
                  outcome'[idx] = "Skipped" /\ delays' = delays
            /\ genCalls' # genCalls => delays = genCalls]_vars

\* The loop has left behind a skipped candidate and a failed one, with
\* one delay applied.
C16_Witness ==
    /\ pc = "loop" /\ idx = 3
    /\ outcome = <<"Skipped", "Failed">>
    /\ delays = 1

\* --------------------------------------------------------------- C17
\* C17: the step that produces the end-of-run summary prints every entry
\* of failed_slugs, slug and error, in order, and leaves the in-memory
\* state, the checkpoint file and the image files as they were.
C17_SummaryObservational ==
    [][(pc = "summary" /\ pc' = "exited") =>
          /\ printed' = state.failed_slugs
          /\ state' = state
          /\ disk' = disk
          /\ artifacts' = artifacts]_vars

\* A run has printed a summary with a failure in it, and the file still
\* holds that failure.
C17_Witness ==
    /\ pc = "exited" /\ exitCode = 0
    /\ printed # <<>>
    /\ printed = state.failed_slugs
    /\ disk = FileJson(state)

\* --------------------------------------------------------------- C18
\* The slugs marked processed, in memory or in the checkpoint file.
MarkedProcessed ==
    ProcessedSet(state) \cup
        (IF disk.kind = "json" THEN ProcessedSet(disk.data) ELSE {})

\* C18: at every point, a kill of the process at any step included, each
\* slug in processed_slugs, in memory or in the file, has its image file
\* in OUTPUT_DIR; and the file was there before the slug was appended.
C18_ArtifactBeforeRecord ==
    /\ [](\A s \in MarkedProcessed : IconFile(s) \in artifacts)
    /\ [][\A s \in ProcessedSet(state') \ ProcessedSet(state) :
             (run' = run /\ loaded) => IconFile(s) \in artifacts]_vars

\* The process was killed with a slug on record in the file, whose image
\* is in place.
C18_Witness ==
    /\ pc = "killed"
    /\ disk.kind = "json" /\ disk.data.processed_slugs # <<>>
    /\ \A s \in ProcessedSet(disk.data) : IconFile(s) \in artifacts

\* --------------------------------------------------------------- C19
\* C19: once a save_state of the run has completed, the checkpoint file
\* holds exactly the in-memory state whenever the loop is about to examine
\* a candidate and when the run ends, and at every other point of the run
\* except between the append of an outcome and the end of the save_state
\* that follows it.
C19_DiskAgreesAtBoundaries ==
    (/\ saves > 0
     /\ \/ pc \in {"loop", "generate", "gen_return", "record", "sleep", "summary"}
        \/ pc = "exited" /\ exitCode = 0)
        => disk = FileJson(state)

\* The loop is about to examine the second candidate after the first one
\* failed and was written to the file.
C19_Witness ==
    /\ pc = "loop" /\ idx = 2 /\ saves = 1
    /\ state.failed_slugs # <<>>
    /\ disk = FileJson(state)

\* --------------------------------------------------------------- C20
\* Sequence a is an initial part of sequence b.
IsPrefix(a, b) == Len(a) <= Len(b) /\ SubSeq(b, 1, Len(a)) = a

\* State st2 has the lists of st1 with entries added at the end only.
Extends(st1, st2) ==
    /\ IsPrefix(st1.processed_slugs, st2.processed_slugs)
    /\ IsPrefix(st1.failed_slugs, st2.failed_slugs)

\* C20: at every step of a run processed_slugs and failed_slugs keep their
\* entries in place and at most gain entries at the end, in memory and,
\* from one complete file to the next, in the checkpoint file; so an end-
\* of-run summary lists every failure the run loaded or recorded, those of
\* slugs that have succeeded since included.
C20_MonotoneCheckpoint ==
    /\ [][/\ (run' = run /\ pc' # "killed") => Extends(state, state')
          /\ (disk.kind = "json" /\ disk'.kind = "json")
                => Extends(disk.data, disk'.data)]_vars
    /\ []((pc = "exited" /\ exitCode = 0) =>
            /\ printed = state.failed_slugs
            /\ IsPrefix(loadedState.failed_slugs, printed)
            /\ \A i \in 1..Len(urls) :
                  outcome[i] = "Failed" => SlugOf[urls[i]] \in
                      {printed[j].slug : j \in 1..Len(printed)})

\* A summary has listed a failure of a slug that is in processed_slugs: it
\* failed once and succeeded later.
C20_Witness ==
    /\ pc = "exited" /\ exitCode = 0
    /\ \E j \in 1..Len(printed) : printed[j].slug \in ProcessedSet(state)

====
